---- MODULE Spec2Model ----
(***************************************************************************)
(* State-machine model of robotpy_build.wrapper.Wrapper                    *)
(* (src/robotpy_build/wrapper.py): the constructor, the dependency         *)
(* resolver (_all_includes, _all_library_dirs, _all_library_names), the    *)
(* download stage on_build_dl and the generation stage on_build_gen with   *)
(* its aggregator writer _write_module_inl.                                *)
(*                                                                         *)
(* Paths are sequences of path components (join appends a component).     *)
(* A directory is a record [exists, files] where files maps a file name to *)
(* its content.  A raised exception is an [err, val] result whose err is   *)
(* not NoErr; every handler is one action that runs to its return or to    *)
(* the first exception, the outcome of each external call (archive fetch,  *)
(* overlay load, code generator) being an input of the action.             *)
(***************************************************************************)
EXTENDS Naturals, Sequences, FiniteSets, TLC

(***************************************************************************)
(* Bounds of the explored inputs.                                          *)
(***************************************************************************)
\* total number of {module-name: header} pairs in one generate list
MaxEntries == 2
\* length of the depends lists the resolver is called on (SpecResolver)
MaxDeps == 2

(***************************************************************************)
(* Fixed inputs: the package being wrapped, the platform, the registry.    *)
(***************************************************************************)
NoErr == "none"

PkgName == "wpilibc"          \* wrapcfg.name
ImportName == "wpilibc"       \* the name argument of __init__
SetupRoot == <<"proj">>       \* setup.root
BaseUrl == "https://frcmaven"  \* wrapcfg.baseurl
Platform == [os |-> "linux", arch |-> "x86-64", libprefix |-> "lib", libext |-> ".so"]
RpybName == "robotpy-build"

join(p, comp) == Append(p, comp)

\* The package registry (setup.pkgcfg): name -> installed package descriptor.
Registry ==
  ("wpiutil" :> [import_name |-> "wpiutil",
                 include_dirs |-> << <<"site", "wpiutil", "include">> >>,
                 library_dirs |-> << <<"site", "wpiutil", "lib">> >>,
                 library_names |-> << "wpiutil" >>]) @@
  ("ntcore" :> [import_name |-> "ntcore",
                include_dirs |-> << <<"site", "ntcore", "include">>,
                                    <<"site", "ntcore", "extra">> >>,
                library_dirs |-> << <<"site", "ntcore", "lib">> >>,
                library_names |-> << "ntcore", "ntcorejni" >>]) @@
  (RpybName :> [import_name |-> "",
                include_dirs |-> << <<"site", "robotpy_build", "include">> >>,
                library_dirs |-> << >>,
                library_names |-> << >>])

\* A dependency name with no entry in the registry.
Ghost == "ghost"

Ok(v) == [err |-> NoErr, val |-> v]
Raise(e) == [err |-> e, val |-> << >>]

\* pkgcfg.get_pkg(name): the registry lookup, failing when the name is absent.
get_pkg(dep) ==
  IF dep \in DOMAIN Registry THEN Ok(Registry[dep]) ELSE Raise("DependencyError")

(***************************************************************************)
(* The pkgcfg interface of the wrapper itself.                             *)
(***************************************************************************)
root == SetupRoot \o <<ImportName>>

get_include_dirs == << join(root, "include") >>

get_library_dirs == << join(root, "lib") >>

get_library_names(c) == << c.name >>

(***************************************************************************)
(* The resolver.  extend_deps is the loop                                  *)
(*     for dep in self.cfg.depends: acc.extend(get_pkg(dep).<field>())     *)
(* which stops at the first dependency whose lookup raises.                *)
(***************************************************************************)
\* faulty variant: a dependency whose lookup raises is skipped
RECURSIVE extend_deps_skipping(_, _, _)
extend_deps_skipping(acc, deps, field) ==
  IF deps = << >> THEN Ok(acc)
  ELSE LET p == get_pkg(Head(deps))
       IN  IF p.err # NoErr THEN extend_deps_skipping(acc, Tail(deps), field)
           ELSE extend_deps_skipping(acc \o p.val[field], Tail(deps), field)

RECURSIVE extend_deps(_, _, _)
extend_deps(acc, deps, field) ==
  IF deps = << >> THEN Ok(acc)
  ELSE LET p == get_pkg(Head(deps))
       IN  IF p.err # NoErr THEN Raise(p.err)
           ELSE extend_deps(acc \o p.val[field], Tail(deps), field)

Reverse(s) == [i \in 1..Len(s) |-> s[Len(s) + 1 - i]]

\* faulty variant: the runtime-support dirs are appended whatever the flag
_all_includes_ignoring_flag(c, include_rpyb) ==
  LET r == extend_deps(get_include_dirs, c.depends, "include_dirs")
  IN  IF r.err # NoErr THEN r
      ELSE LET p == get_pkg(RpybName)
           IN  IF p.err # NoErr THEN Raise(p.err)
               ELSE Ok(r.val \o p.val.include_dirs)

_all_includes(c, include_rpyb) ==
  LET r == extend_deps(get_include_dirs, c.depends, "include_dirs")
  IN  IF r.err # NoErr THEN r
      ELSE IF include_rpyb
           THEN LET p == get_pkg(RpybName)
                IN  IF p.err # NoErr THEN Raise(p.err)
                    ELSE Ok(r.val \o p.val.include_dirs)
           ELSE r

_all_library_dirs(c) ==
  extend_deps(get_library_dirs, c.depends, "library_dirs")

\* faulty variant: the collected names are returned in declaration order
_all_library_names_unreversed(c) ==
  extend_deps(get_library_names(c), c.depends, "library_names")

_all_library_names(c) ==
  LET r == extend_deps(get_library_names(c), c.depends, "library_names")
  IN  IF r.err # NoErr THEN r ELSE Ok(Reverse(r.val))

(***************************************************************************)
(* Manifests (wrapcfg) the wrapper is constructed with.                    *)
(***************************************************************************)
ModNames == {"a", "b"}
HeaderOf(n) == n \o ".h"

\* a yaml mapping {name: header, ...}: its items in insertion order
Dicts ==
  { [i \in 1..Len(s) |-> [name |-> s[i], header |-> HeaderOf(s[i])]] :
      s \in { t \in UNION { [1..k -> ModNames] : k \in 1..MaxEntries } :
                \A i, j \in 1..Len(t) : i # j => t[i] # t[j] } }

RECURSIVE SumLen(_)
SumLen(g) == IF g = << >> THEN 0 ELSE Len(Head(g)) + SumLen(Tail(g))

GenerateLists ==
  { g \in UNION { [1..k -> Dicts] : k \in 0..MaxEntries } : SumLen(g) <= MaxEntries }

DependsChoices ==
  { << >>, <<"wpiutil", "ntcore">>, <<"wpiutil", Ghost>> }

SourcesChoices == { << >>, << <<"wpilibc", "src", "main.cpp">> >> }

GenDataChoices == { "", "gen/data.yml" }

Versions == { "2020.1.1" }

Manifest(deps, srcs, gen, gd, ver) ==
  [name |-> PkgName, artname |-> "", version |-> ver, depends |-> deps,
   sources |-> srcs, generate |-> gen, generation_data |-> gd]

Manifests ==
  { Manifest(d, s, g, gd, v) :
      d \in DependsChoices, s \in SourcesChoices, g \in GenerateLists,
      gd \in GenDataChoices, v \in Versions }

\* all depends lists of at most MaxDeps names, resolvable or not
DepNames == DOMAIN Registry \cup {Ghost}
AllDepends == UNION { [1..k -> DepNames] : k \in 0..MaxDeps }


(***************************************************************************)
(* State.                                                                  *)
(***************************************************************************)
VARIABLES
  pc,            \* where the build of this package stands
  cfg,           \* self.cfg, the manifest the wrapper was constructed with
  extension,     \* self.extension, the build descriptor (present = not None)
  entry_points,  \* setup_kwargs["entry_points"]["robotpybuild"]
  fetched,       \* archive URLs requested from the store by this process
  err,           \* exception that ended the last handler, or NoErr
  incdir,        \* <root>/include
  libdir,        \* <root>/lib
  gensrc,        \* <root>/gensrc
  initpy,        \* <root>/__init__.py
  pkgcfgpy,      \* <root>/pkgcfg.py
  h2w,           \* code-generator invocations of the last on_build_gen
  ret            \* result of the last direct resolver call

vars == <<pc, cfg, extension, entry_points, fetched, err, incdir, libdir,
          gensrc, initpy, pkgcfgpy, h2w, ret>>

fsvars == <<incdir, libdir, gensrc, initpy, pkgcfgpy>>

NoFiles == [n \in {} |-> << >>]
NoDir == [exists |-> FALSE, files |-> NoFiles]
EmptyDir == [exists |-> TRUE, files |-> NoFiles]
NoFile == [exists |-> FALSE, content |-> << >>]
File(content) == [exists |-> TRUE, content |-> content]

NoExtension ==
  [present |-> FALSE, name |-> "", sources |-> << >>, include_dirs |-> << >>,
   library_dirs |-> << >>, libraries |-> << >>]

\* setuptools.Extension(name, sources, language="c++")
Extension(extname, sources) ==
  [present |-> TRUE, name |-> extname, sources |-> sources,
   include_dirs |-> << >>, library_dirs |-> << >>, libraries |-> << >>]

NoRet == [op |-> "none", err |-> NoErr, val |-> << >>]

(***************************************************************************)
(* Wrapper.__init__(name, wrapcfg, setup), eps being the entry points      *)
(* already registered in setup.setup_kwargs.                               *)
(***************************************************************************)
\* faulty variant: the entry point is registered before the manifest check
__init__registering_first(c, eps) ==
  LET c1 == IF c.artname = "" THEN [c EXCEPT !.artname = c.name] ELSE c
      ext == IF c1.sources # << >> \/ c1.generate # << >>
             THEN Extension(ImportName \o "." \o c1.name, c1.sources)
             ELSE NoExtension
      eps1 == Append(eps, c1.name \o " = " \o ImportName \o ".pkgcfg")
  IN  [err |-> IF c1.generate # << >> /\ c1.generation_data = ""
               THEN "ValueError" ELSE NoErr,
       cfg |-> c1, extension |-> ext, entry_points |-> eps1]

__init__(c, eps) ==
  LET c1 == IF c.artname = "" THEN [c EXCEPT !.artname = c.name] ELSE c
      ext == IF c1.sources # << >> \/ c1.generate # << >>
             THEN Extension(ImportName \o "." \o c1.name, c1.sources)
             ELSE NoExtension
  IN  IF c1.generate # << >> /\ c1.generation_data = ""
      THEN [err |-> "ValueError", cfg |-> c1, extension |-> ext,
            entry_points |-> eps]
      ELSE [err |-> NoErr, cfg |-> c1, extension |-> ext,
            entry_points |-> Append(eps, c1.name \o " = " \o ImportName \o ".pkgcfg")]

(***************************************************************************)
(* Download stage.                                                         *)
(***************************************************************************)
_dl_url(c, thing) ==
  BaseUrl \o "/" \o c.artname \o "/" \o c.version \o "/" \o
  c.artname \o "-" \o c.version \o "-" \o thing \o ".zip"

\* what the archive store holds under a URL: the headers tree
HeaderTree(url) == [h \in { HeaderOf(n) : n \in ModNames } |-> url]

\* download_and_extract_zip(url, to=dir): the whole tree lands in dir
extract_tree(dir, url) == [exists |-> TRUE, files |-> HeaderTree(url) @@ dir.files]

\* download_and_extract_zip(url, to={src: dst}): the named members land in dir
extract_members(dir, url, names) ==
  [exists |-> TRUE, files |-> [n \in names |-> url] @@ dir.files]

RECURSIVE init_imports(_, _)
init_imports(acc, deps) ==
  IF deps = << >> THEN Ok(acc)
  ELSE LET p == get_pkg(Head(deps))
       IN  IF p.err # NoErr THEN Raise(p.err)
           ELSE init_imports(IF p.val.import_name # ""
                             THEN Append(acc, p.val.import_name) ELSE acc,
                             Tail(deps))

\* content of __init__.py, or the exception of the registry lookup
_write_init_py(c, libnames) ==
  LET imports == init_imports(<< >>, c.depends)
  IN  IF imports.err # NoErr THEN imports
      ELSE Ok([libs |-> libnames, imports |-> imports.val])

\* content of pkgcfg.py (no extra_headers in the explored manifests)
_write_pkgcfg_py(c) ==
  [import_name |-> ImportName, library_names |-> << c.name >>,
   extraincludes |-> << >>]

\* hdr, lib: outcome ("ok" or "fail") of the headers and the library fetch
on_build_dl(c, fetched0, hdr, lib) ==
  LET hdrurl == _dl_url(c, "headers")
      liburl == _dl_url(c, Platform.os \o Platform.arch)
      libnames == << Platform.libprefix \o c.name \o Platform.libext >>
      f1 == Append(fetched0, hdrurl)
      f2 == Append(f1, liburl)
      inc1 == extract_tree(NoDir, hdrurl)
      lib1 == extract_members(EmptyDir, liburl, { libnames[i] : i \in 1..Len(libnames) })
      init == _write_init_py(c, libnames)
  IN  IF hdr # "ok"
      THEN [err |-> "FetchError", fetched |-> f1, incdir |-> NoDir,
            libdir |-> NoDir, initpy |-> NoFile, pkgcfgpy |-> NoFile]
      ELSE IF lib # "ok"
      THEN [err |-> "FetchError", fetched |-> f2, incdir |-> inc1,
            libdir |-> EmptyDir, initpy |-> NoFile, pkgcfgpy |-> NoFile]
      ELSE IF init.err # NoErr
      THEN [err |-> init.err, fetched |-> f2, incdir |-> inc1,
            libdir |-> lib1, initpy |-> NoFile, pkgcfgpy |-> NoFile]
      ELSE [err |-> NoErr, fetched |-> f2, incdir |-> inc1,
            libdir |-> lib1, initpy |-> File(init.val),
            pkgcfgpy |-> File(_write_pkgcfg_py(c))]

(***************************************************************************)
(* Generation stage.                                                       *)
(***************************************************************************)
\* for gen in self.cfg.generate: for name, header in gen.items(): ...
RECURSIVE items(_)
items(generate) ==
  IF generate = << >> THEN << >> ELSE Head(generate) \o items(Tail(generate))

outdir == join(root, "gensrc")

\* faulty variant: the calls are emitted last entry first
_write_module_inl_calls_reversed(c) ==
  LET es == items(c.generate)
  IN  [decls |-> [i \in 1..Len(es) |-> "void init_" \o es[i].name \o "(py::module &m);"],
       calls |-> [i \in 1..Len(es) |->
                    "    init_" \o es[Len(es) + 1 - i].name \o "(m);"]]

\* content of gensrc/module.hpp: the lines put in place of ##DECLS## and ##CALLS##
_write_module_inl(c) ==
  LET es == items(c.generate)
  IN  [decls |-> [i \in 1..Len(es) |-> "void init_" \o es[i].name \o "(py::module &m);"],
       calls |-> [i \in 1..Len(es) |-> "    init_" \o es[i].name \o "(m);"]]

\* the h2w configuration dictionary of one entry
cfgd(e, pp_includes) ==
  [headers |-> << join(join(root, "include"), e.header) >>,
   dst |-> join(outdir, e.name \o ".cpp"),
   pp_include_paths |-> pp_includes,
   mod_fn |-> e.name]

\* process_config(cfg, data): the generated source written to dst
process_config(e, inc) ==
  [mod_fn |-> e.name, header |-> e.header,
   from |-> IF e.header \in DOMAIN inc.files THEN inc.files[e.header] ELSE ""]

\* files of gensrc after the first n entries were generated, later writes
\* to the same dst replacing earlier ones
RECURSIVE generated(_, _, _)
generated(es, n, inc) ==
  IF n = 0 THEN NoFiles
  ELSE ((es[n].name \o ".cpp") :> process_config(es[n], inc)) @@ generated(es, n - 1, inc)

\* faulty variant: the directory is created if missing but never cleared
recreate_keeping_files(dir) == [exists |-> TRUE, files |-> dir.files]

\* shutil.rmtree(outdir, ignore_errors=True); os.makedirs(outdir)
recreate(dir) == EmptyDir

\* faulty variant: the explicit sources are not carried over
gen_sources_generated_only(c) ==
  LET es == items(c.generate)
  IN  [i \in 1..Len(es) |-> join(outdir, es[i].name \o ".cpp")]

\* sources = self.cfg.sources[:], then one dst appended per entry
gen_sources(c) ==
  LET es == items(c.generate)
  IN  c.sources \o [i \in 1..Len(es) |-> join(outdir, es[i].name \o ".cpp")]

DataOutcomes == {"ok", "missing", "malformed", "invalid"}

\* ext, inc: self.extension and <root>/include before the call;
\* gs: <root>/gensrc before the call; data: outcome of loading and
\* validating the overlay; failAt: index of the entry whose generator
\* invocation raises, 0 when none does
on_build_gen(c, ext, gs, inc, data, failAt) ==
  LET es == items(c.generate)
      pp == _all_includes(c, FALSE)
      n == IF failAt = 0 THEN Len(es) ELSE failAt - 1
      calls == IF failAt = 0 THEN Len(es) ELSE failAt
      log == [i \in 1..calls |-> cfgd(es[i], pp.val)]
      sources == gen_sources(c)
      out == recreate(gs)
      gen == [exists |-> TRUE, files |-> generated(es, n, inc) @@ out.files]
      done == [exists |-> TRUE,
               files |-> ("module.hpp" :> _write_module_inl(c)) @@ gen.files]
      incs == _all_includes(c, TRUE)
      ldirs == _all_library_dirs(c)
      lnames == _all_library_names(c)
      e1 == [ext EXCEPT !.sources = sources]
      e2 == [e1 EXCEPT !.include_dirs = incs.val]
      e3 == [e2 EXCEPT !.library_dirs = ldirs.val]
      e4 == [e3 EXCEPT !.libraries = lnames.val]
  IN  IF c.generate = << >>
      THEN [err |-> NoErr, gensrc |-> gs, extension |-> ext, h2w |-> << >>]
      ELSE IF pp.err # NoErr
      THEN [err |-> pp.err, gensrc |-> gs, extension |-> ext, h2w |-> << >>]
      ELSE IF c.generation_data # "" /\ data = "missing"
      THEN [err |-> "OSError", gensrc |-> out, extension |-> ext, h2w |-> << >>]
      ELSE IF c.generation_data # "" /\ data = "malformed"
      THEN [err |-> "YAMLError", gensrc |-> out, extension |-> ext, h2w |-> << >>]
      ELSE IF data = "invalid"
      THEN [err |-> "DataError", gensrc |-> out, extension |-> ext, h2w |-> << >>]
      ELSE IF failAt # 0
      THEN [err |-> "GenerationError", gensrc |-> gen, extension |-> ext, h2w |-> log]
      ELSE IF incs.err # NoErr
      THEN [err |-> incs.err, gensrc |-> done, extension |-> e1, h2w |-> log]
      ELSE IF ldirs.err # NoErr
      THEN [err |-> ldirs.err, gensrc |-> done, extension |-> e2, h2w |-> log]
      ELSE IF lnames.err # NoErr
      THEN [err |-> lnames.err, gensrc |-> done, extension |-> e3, h2w |-> log]
      ELSE [err |-> NoErr, gensrc |-> done, extension |-> e4, h2w |-> log]

(***************************************************************************)
(* The build of one package: setup constructs the wrapper, the build_dl    *)
(* command runs on_build_dl, the build_gen command runs on_build_gen.  An   *)
(* exception ends the process; a later process starts over on the files    *)
(* the earlier one left, possibly with a changed manifest.                 *)
(***************************************************************************)
Constructed(c) ==
  LET w == __init__(c, << >>)
  IN  /\ pc' = IF w.err = NoErr THEN "constructed" ELSE "ctor_failed"
      /\ err' = w.err
      /\ cfg' = w.cfg
      /\ extension' = w.extension
      /\ entry_points' = w.entry_points
      /\ fetched' = << >>
      /\ h2w' = << >>
      /\ ret' = NoRet

Init ==
  /\ incdir = NoDir /\ libdir = NoDir /\ gensrc = NoDir
  /\ initpy = NoFile /\ pkgcfgpy = NoFile
  /\ \E c \in Manifests :
       LET w == __init__(c, << >>)
       IN  /\ pc = IF w.err = NoErr THEN "constructed" ELSE "ctor_failed"
           /\ err = w.err
           /\ cfg = w.cfg
           /\ extension = w.extension
           /\ entry_points = w.entry_points
           /\ fetched = << >>
           /\ h2w = << >>
           /\ ret = NoRet

\* a new setup.py process constructs the wrapper again
Construct ==
  /\ pc \in {"ctor_failed", "dl_failed", "gen_done", "gen_failed"}
  /\ \E c \in Manifests : Constructed(c)
  /\ UNCHANGED fsvars

BuildDl ==
  /\ pc = "constructed"
  /\ \E hdr \in {"ok", "fail"}, lib \in {"ok", "fail"} :
       LET r == on_build_dl(cfg, fetched, hdr, lib)
       IN  /\ pc' = IF r.err = NoErr THEN "dl_done" ELSE "dl_failed"
           /\ err' = r.err
           /\ fetched' = r.fetched
           /\ incdir' = r.incdir
           /\ libdir' = r.libdir
           /\ initpy' = r.initpy
           /\ pkgcfgpy' = r.pkgcfgpy
  /\ UNCHANGED <<cfg, extension, entry_points, gensrc, h2w, ret>>

BuildGen ==
  /\ pc = "dl_done"
  /\ \E data \in DataOutcomes, failAt \in 0..Len(items(cfg.generate)) :
       LET r == on_build_gen(cfg, extension, gensrc, incdir, data, failAt)
       IN  /\ pc' = IF r.err = NoErr THEN "gen_done" ELSE "gen_failed"
           /\ err' = r.err
           /\ gensrc' = r.gensrc
           /\ extension' = r.extension
           /\ h2w' = r.h2w
  /\ UNCHANGED <<cfg, entry_points, fetched, incdir, libdir, initpy, pkgcfgpy, ret>>

Next == Construct \/ BuildDl \/ BuildGen

Spec == Init /\ [][Next]_vars

(***************************************************************************)
(* The resolver called directly on every depends list of bounded length.   *)
(***************************************************************************)
InitResolver ==
  /\ incdir = NoDir /\ libdir = NoDir /\ gensrc = NoDir
  /\ initpy = NoFile /\ pkgcfgpy = NoFile
  /\ \E d \in AllDepends, s \in SourcesChoices, v \in Versions :
       LET w == __init__(Manifest(d, s, << >>, "", v), << >>)
       IN  /\ pc = "constructed"
           /\ err = w.err
           /\ cfg = w.cfg
           /\ extension = w.extension
           /\ entry_points = w.entry_points
           /\ fetched = << >>
           /\ h2w = << >>
           /\ ret = NoRet

Returned(op, r) ==
  /\ pc' = "returned"
  /\ err' = r.err
  /\ ret' = [op |-> op, err |-> r.err, val |-> r.val]
  /\ UNCHANGED <<cfg, extension, entry_points, fetched, h2w>>
  /\ UNCHANGED fsvars

CallAllIncludes ==
  /\ pc = "constructed"
  /\ \E include_rpyb \in BOOLEAN :
       Returned(IF include_rpyb THEN "_all_includes(True)" ELSE "_all_includes(False)",
                _all_includes(cfg, include_rpyb))

CallAllLibraryDirs ==
  /\ pc = "constructed"
  /\ Returned("_all_library_dirs", _all_library_dirs(cfg))

CallAllLibraryNames ==
  /\ pc = "constructed"
  /\ Returned("_all_library_names", _all_library_names(cfg))

NextResolver == CallAllIncludes \/ CallAllLibraryDirs \/ CallAllLibraryNames

SpecResolver == InitResolver /\ [][NextResolver]_vars

(***************************************************************************)
(* Properties.  The expected sequences are stated position by position    *)
(* from the manifest and the registry, not through the resolver.           *)
(***************************************************************************)
Resolves(deps) == \A i \in 1..Len(deps) : deps[i] \in DOMAIN Registry

\* number of <field> items the dependencies declared before the i-th one hold
RECURSIVE FieldBefore(_, _, _)
FieldBefore(deps, i, field) ==
  IF i <= 1 THEN 0
  ELSE Len(Registry[deps[i - 1]][field]) + FieldBefore(deps, i - 1, field)

\* number of entries of the dictionaries before the i-th one
RECURSIVE EntriesBefore(_, _)
EntriesBefore(g, i) ==
  IF i <= 1 THEN 0 ELSE Len(g[i - 1]) + EntriesBefore(g, i - 1)

NumEntries(g) == EntriesBefore(g, Len(g) + 1)

OwnIncludeDir == <<"proj", "wpilibc", "include">>
GensrcDir == <<"proj", "wpilibc", "gensrc">>
AggregatorName == "module.hpp"

\* C1: when every declared dependency resolves, _all_library_names returns
\* the reverse of [own library name] followed by each direct dependency's
\* library names in declaration order: the own name is last, the j-th name
\* of the i-th dependency sits at the mirrored position, nothing is added,
\* dropped or deduplicated.
C1_LibraryNamesReversed ==
  (pc = "returned" /\ ret.op = "_all_library_names" /\ Resolves(cfg.depends)) =>
    LET d == cfg.depends
        total == 1 + FieldBefore(d, Len(d) + 1, "library_names")
    IN  /\ ret.err = NoErr
        /\ Len(ret.val) = total
        /\ ret.val[total] = cfg.name
        /\ \A i \in 1..Len(d) :
             \A j \in 1..Len(Registry[d[i]].library_names) :
               ret.val[total + 1 - (1 + FieldBefore(d, i, "library_names") + j)]
                 = Registry[d[i]].library_names[j]

C1_Witness ==
  /\ pc = "returned" /\ ret.op = "_all_library_names"
  /\ cfg.depends = <<"ntcore", "wpiutil">>
  /\ ret.val = <<"wpiutil", "ntcorejni", "ntcore", "wpilibc">>

\* C2: when a declared dependency has no registry entry, each resolver
\* operation ends in a dependency error and returns no sequence.
C2_MissingDependencyRaises ==
  (pc = "returned" /\ ~Resolves(cfg.depends)) =>
    (ret.err = "DependencyError" /\ ret.val = << >>)

C2_Witness ==
  /\ pc = "returned" /\ ret.op = "_all_library_names"
  /\ cfg.depends = <<"wpiutil", Ghost>>
  /\ ret.err = "DependencyError"

BadManifest(c) == c.generate # << >> /\ c.generation_data = ""

\* C3: constructing a wrapper from a manifest with generate entries and no
\* generation_data fails with the configuration error, with no entry point
\* registered, no archive fetched and no file or directory touched.
C3_ConfigErrorBeforeSideEffects ==
  /\ []((pc \in {"constructed", "ctor_failed"} /\ BadManifest(cfg)) =>
          (pc = "ctor_failed" /\ err = "ValueError" /\ entry_points = << >>
           /\ fetched = << >>))
  /\ [][(pc' \in {"constructed", "ctor_failed"} /\ BadManifest(cfg')) =>
          (pc' = "ctor_failed" /\ UNCHANGED fsvars)]_vars

C3_Witness ==
  /\ pc = "ctor_failed" /\ BadManifest(cfg)
  /\ gensrc.exists /\ incdir.exists /\ initpy.exists

\* C4: the aggregator holds one forward declaration and one call per
\* generation entry, both in manifest order; with unique module names each
\* initializer is declared once and called once.
C4_AggregatorManifestOrder ==
  (pc = "gen_done" /\ cfg.generate # << >>) =>
    /\ AggregatorName \in DOMAIN gensrc.files
    /\ LET m == gensrc.files[AggregatorName]
           g == cfg.generate
       IN  /\ Len(m.decls) = NumEntries(g)
           /\ Len(m.calls) = NumEntries(g)
           /\ \A i \in 1..Len(g) : \A j \in 1..Len(g[i]) :
                /\ m.decls[EntriesBefore(g, i) + j]
                     = "void init_" \o g[i][j].name \o "(py::module &m);"
                /\ m.calls[EntriesBefore(g, i) + j]
                     = "    init_" \o g[i][j].name \o "(m);"
           /\ (\A i1, i2 \in 1..Len(g) : \A j1 \in 1..Len(g[i1]), j2 \in 1..Len(g[i2]) :
                 g[i1][j1].name = g[i2][j2].name => (i1 = i2 /\ j1 = j2))
              => \A i \in 1..Len(g) : \A j \in 1..Len(g[i]) :
                   /\ Cardinality({ k \in 1..Len(m.decls) : m.decls[k] =
                        "void init_" \o g[i][j].name \o "(py::module &m);" }) = 1
                   /\ Cardinality({ k \in 1..Len(m.calls) : m.calls[k] =
                        "    init_" \o g[i][j].name \o "(m);" }) = 1

C4_Witness ==
  /\ pc = "gen_done" /\ Len(cfg.generate) = 2
  /\ cfg.generate[1][1].name = "b" /\ cfg.generate[2][1].name = "a"
  /\ AggregatorName \in DOMAIN gensrc.files

\* C5: after on_build_dl and on_build_gen have run, gensrc holds only the
\* generated sources of the current manifest's entries plus the aggregator,
\* and nothing at all when the current manifest has no generation entry.
C5_NoStaleGeneratedFiles ==
  pc = "gen_done" =>
    LET g == cfg.generate
    IN  DOMAIN gensrc.files \subseteq
          IF g = << >> THEN {}
          ELSE UNION { { g[i][j].name \o ".cpp" : j \in 1..Len(g[i]) } :
                       i \in 1..Len(g) }
               \cup {AggregatorName}

\* the include sequence is the own include dir, then each dependency's
\* include dirs in declaration order, then (rpyb) the runtime-support dirs
IsIncludeOrder(v, d, rpyb) ==
  LET deps == FieldBefore(d, Len(d) + 1, "include_dirs")
      rt == Registry[RpybName].include_dirs
  IN  /\ Len(v) = 1 + deps + (IF rpyb THEN Len(rt) ELSE 0)
      /\ v[1] = OwnIncludeDir
      /\ \A i \in 1..Len(d) : \A j \in 1..Len(Registry[d[i]].include_dirs) :
           v[1 + FieldBefore(d, i, "include_dirs") + j] = Registry[d[i]].include_dirs[j]
      /\ rpyb => \A j \in 1..Len(rt) : v[1 + deps + j] = rt[j]

\* C6: every code-generator invocation receives the include sequence without
\* the runtime-support dirs, and the build descriptor receives the sequence
\* with them appended last; both start with the own include dir followed by
\* the dependencies' include dirs in declaration order.
C6_IncludeVariants ==
  /\ \A k \in 1..Len(h2w) :
       IsIncludeOrder(h2w[k].pp_include_paths, cfg.depends, FALSE)
  /\ (pc = "gen_done" /\ cfg.generate # << >>) =>
       IsIncludeOrder(extension.include_dirs, cfg.depends, TRUE)

C6_Witness ==
  /\ pc = "gen_done" /\ Len(h2w) = 2
  /\ cfg.depends = <<"wpiutil", "ntcore">>
  /\ Len(extension.include_dirs) = 5

IsGeneratedSources(v, c) ==
  LET g == c.generate
  IN  /\ \A k \in 1..Len(c.sources) : v[k] = c.sources[k]
      /\ \A i \in 1..Len(g) : \A j \in 1..Len(g[i]) :
           v[Len(c.sources) + EntriesBefore(g, i) + j]
             = Append(GensrcDir, g[i][j].name \o ".cpp")

\* C7 as stated: the source list is the explicit sources, one generated
\* source per entry in manifest order, then the aggregator.
C7_SourcesEndWithAggregator ==
  (pc = "gen_done" /\ cfg.generate # << >>) =>
    /\ Len(extension.sources) = Len(cfg.sources) + NumEntries(cfg.generate) + 1
    /\ IsGeneratedSources(extension.sources, cfg)
    /\ extension.sources[Len(extension.sources)] = Append(GensrcDir, AggregatorName)

\* C7 amended: the source list is the explicit sources followed by one
\* generated source per entry in manifest order and nothing else; the
\* aggregator is written to gensrc but is not in the source list.
C7_SourcesWithoutAggregator ==
  (pc = "gen_done" /\ cfg.generate # << >>) =>
    /\ Len(extension.sources) = Len(cfg.sources) + NumEntries(cfg.generate)
    /\ IsGeneratedSources(extension.sources, cfg)
    /\ AggregatorName \in DOMAIN gensrc.files
    /\ \A k \in 1..Len(extension.sources) :
         extension.sources[k] # Append(GensrcDir, AggregatorName)

C7_Witness ==
  /\ pc = "gen_done" /\ cfg.sources # << >>
  /\ Len(cfg.generate) = 2
  /\ Len(extension.sources) = 3

\* C8: when a fetch inside on_build_dl fails, __init__.py and pkgcfg.py are
\* not written and include/ and lib/ hold nothing produced by the failed run.
C8_NoPartialArtifacts ==
  (pc = "dl_failed" /\ err = "FetchError") =>
    /\ ~initpy.exists
    /\ ~pkgcfgpy.exists
    /\ DOMAIN incdir.files = {}
    /\ DOMAIN libdir.files = {}

GenFailures == {"OSError", "YAMLError", "DataError", "GenerationError"}

\* C9: when the overlay cannot be loaded or validated, or the generator
\* fails on an entry, on_build_gen ends in that error, gensrc holds no
\* aggregator afterwards and the build descriptor is what it was before.
C9_FailedGenerationLeavesNoAggregator ==
  [][(pc' = "gen_failed" /\ err' \in GenFailures) =>
       (AggregatorName \notin DOMAIN gensrc'.files /\ extension' = extension)]_vars

C9_Witness ==
  /\ pc = "gen_failed" /\ err = "GenerationError"
  /\ Len(h2w) = 2
  /\ DOMAIN gensrc.files # {}
  /\ extension.present /\ extension.include_dirs = << >>

\* C10: every build descriptor created by the constructor has, once
\* on_build_gen has completed, its include dirs, library dirs and library
\* names set to the resolver's full outputs.
C10_DescriptorFilledByGen ==
  (pc = "gen_done" /\ extension.present) =>
    /\ IsIncludeOrder(extension.include_dirs, cfg.depends, TRUE)
    /\ extension.library_dirs = _all_library_dirs(cfg).val
    /\ extension.libraries = _all_library_names(cfg).val
====
